---- MODULE Spec2Model ----
(***************************************************************************)
(* Profile editing forms of communiT (src/pages/profile/edit-profile.tsx). *)
(*                                                                         *)
(* Two versions of the EditProfile component are modelled:                 *)
(*   "cards"  - the multi-card view (lines 1-229): separate nickname and   *)
(*              password forms, image and category cards with their own    *)
(*              update buttons;                                            *)
(*   "single" - the single-form view (lines 231-446): one form with save   *)
(*              and cancel.                                                *)
(*                                                                         *)
(* A string is a sequence of characters; a character is a one-token        *)
(* string.  "GA" and "HIH" stand for the Hangul syllables U+AC00 and       *)
(* U+D7A3, "JAMO" for the lone consonant U+3131, "LS" for the line         *)
(* separator U+2028.                                                       *)
(***************************************************************************)
EXTENDS Integers, Sequences, FiniteSets, TLC

\* ------------------------------------------------------------------------
\* Bounds of the model
\* ------------------------------------------------------------------------
MaxNickLen == 3
MaxRepeatLen == 4
MaxPwLen == 9
MaxSelections == 3
MaxSubmits == 2
NumFiles == 2

\* ------------------------------------------------------------------------
\* Characters
\* ------------------------------------------------------------------------
\* ECMAScript LineTerminator: what "." does not match (no s flag).
LineTerminators == {"\n", "LS"}

\* What String.prototype.trim strips: WhiteSpace and LineTerminator.
WhiteSpaceChars == {" "} \cup LineTerminators

\* The character class [a-zA-Z0-9 U+AC00-U+D7A3] of the nickname regex.
NicknameClass == {"a", "b", "Z", "7", "GA", "HIH"}

NickChars == {"a", "7", "GA", "JAMO", " ", "\n", "!"}
RepeatChars == {"a", "b", "\n", "LS"}

RECURSIVE Strings(_, _)
Strings(chars, n) ==
  IF n = 0 THEN {<< >>}
  ELSE LET shorter == Strings(chars, n - 1)
       IN  shorter \cup {Append(s, c) : s \in {t \in shorter : Len(t) = n - 1}, c \in chars}

\* String.prototype.trim
Trim(s) ==
  LET keep == {i \in 1..Len(s) : s[i] \notin WhiteSpaceChars}
  IN  IF keep = {} THEN << >>
      ELSE LET first == CHOOSE i \in keep : \A j \in keep : i <= j
               last == CHOOSE i \in keep : \A j \in keep : j <= i
           IN  SubSeq(s, first, last)

\* ------------------------------------------------------------------------
\* Regular expressions of the schemas
\* ------------------------------------------------------------------------
\* /^[a-zA-Z0-9 U+AC00-U+D7A3]*$/ : every character is in the class.
NicknameRegex(s) == \A i \in 1..Len(s) : s[i] \in NicknameClass

\* "." matches any single character except a line terminator.
Dot(c) == c \notin LineTerminators

\* The lookahead body  .*(.)\1\1  tried at position 0: some run of dots,
\* then a captured dot followed by two copies of it.
TripleAhead(s) ==
  \E k \in 1..Len(s) :
    /\ k + 2 <= Len(s)
    /\ \A j \in 1..k : Dot(s[j])
    /\ s[k + 1] = s[k]
    /\ s[k + 2] = s[k]

\* The tail  .*$  from position 0: dots up to the end of the input.
DotsToEnd(s) == \A j \in 1..Len(s) : Dot(s[j])

\* /^(?!.*(.)\1\1).*$/
NoRepeatRegex(s) == ~TripleAhead(s) /\ DotsToEnd(s)

RegexTest(re, s) ==
  IF re = "nickname" THEN NicknameRegex(s) ELSE NoRepeatRegex(s)

\* ------------------------------------------------------------------------
\* Messages
\* ------------------------------------------------------------------------
NoError == "none"
MsgEmpty == "enter a name"
MsgPattern == "no spaces, special characters or lone jamo"
MsgNickMin == "name must be at least 2 characters"
MsgPwMin == "password must be at least 8 characters"
MsgRepeat == "cannot repeat the same character 3+ times"
MsgMismatch == "passwords do not match"

\* ------------------------------------------------------------------------
\* zod string schemas: a list of checks run in order on the value; trim
\* rewrites the value, every other check adds an issue when it fails and
\* the later checks still run.
\* ------------------------------------------------------------------------
CheckTrim == [kind |-> "trim", n |-> 0, re |-> "", message |-> ""]
CheckMin(n, msg) == [kind |-> "min", n |-> n, re |-> "", message |-> msg]
CheckRegex(re, msg) == [kind |-> "regex", n |-> 0, re |-> re, message |-> msg]

RECURSIVE RunChecks(_, _, _)
RunChecks(checks, value, issues) ==
  IF checks = << >> THEN [value |-> value, issues |-> issues]
  ELSE LET c == Head(checks)
           rest == Tail(checks)
       IN  IF c.kind = "trim" THEN RunChecks(rest, Trim(value), issues)
           ELSE IF c.kind = "min" THEN
             RunChecks(rest, value,
                       IF Len(value) < c.n THEN Append(issues, c.message) ELSE issues)
           ELSE
             RunChecks(rest, value,
                       IF RegexTest(c.re, value) THEN issues ELSE Append(issues, c.message))

ZodString(checks, input) == RunChecks(checks, input, << >>)

\* Mutant: the nickname checks without .trim()
nicknameSchemaUntrimmed ==
  << CheckMin(1, MsgEmpty),
     CheckRegex("nickname", MsgPattern),
     CheckMin(2, MsgNickMin) >>

\* nicknameSchema.nickname (cards view)
nicknameSchemaNickname ==
  << CheckTrim,
     CheckMin(1, MsgEmpty),
     CheckRegex("nickname", MsgPattern),
     CheckMin(2, MsgNickMin) >>

\* formSchema.userNickname (single view)
formSchemaUserNickname ==
  << CheckTrim,
     CheckMin(1, MsgEmpty),
     CheckRegex("nickname", MsgPattern),
     CheckMin(2, MsgNickMin) >>

\* passwordSchema.currentPassword (cards view)
passwordSchemaCurrentPassword == << CheckMin(8, MsgPwMin) >>

\* Mutant: the repeat check placed before the length check
passwordSchemaNewPasswordSwapped ==
  << CheckRegex("norepeat", MsgRepeat), CheckMin(8, MsgPwMin) >>

\* passwordSchema.newPassword (cards view)
passwordSchemaNewPassword ==
  << CheckMin(8, MsgPwMin), CheckRegex("norepeat", MsgRepeat) >>

\* formSchema.password (single view)
formSchemaPassword == << CheckMin(8, MsgPwMin) >>

\* formSchema.newPassword (single view)
formSchemaNewPassword ==
  << CheckMin(8, MsgPwMin), CheckRegex("norepeat", MsgRepeat) >>

\* z.string() with no checks
confirmPasswordChecks == << >>

\* ------------------------------------------------------------------------
\* zod object schemas.  The fields are parsed in key order; a failed string
\* check leaves the object "dirty", not "aborted", so the refinement of the
\* object still runs and its issue is added after the field issues.
\* ------------------------------------------------------------------------
NoRefine(data) == TRUE

\* data => data.newPassword === data.confirmPassword   (passwordSchema)
passwordSchemaRefine(data) == data["newPassword"] = data["confirmPassword"]

\* data => data.newPassword === data.confirmPassword   (formSchema)
formSchemaRefine(data) == data["newPassword"] = data["confirmPassword"]

\* Mutant: the mismatch reported on the newPassword field
passwordSchemaRefinePathNew == "newPassword"

\* path: ['confirmPassword'] of both refinements
passwordSchemaRefinePath == "confirmPassword"
formSchemaRefinePath == "confirmPassword"

nicknameSchema ==
  [keys |-> << "nickname" >>,
   checks |-> [f \in {"nickname"} |-> nicknameSchemaNickname],
   refines |-> FALSE]

passwordSchema ==
  [keys |-> << "currentPassword", "newPassword", "confirmPassword" >>,
   checks |-> [f \in {"currentPassword", "newPassword", "confirmPassword"} |->
                 IF f = "currentPassword" THEN passwordSchemaCurrentPassword
                 ELSE IF f = "newPassword" THEN passwordSchemaNewPassword
                 ELSE confirmPasswordChecks],
   refines |-> TRUE]

formSchema ==
  [keys |-> << "userNickname", "password", "newPassword", "confirmPassword" >>,
   checks |-> [f \in {"userNickname", "password", "newPassword", "confirmPassword"} |->
                 IF f = "userNickname" THEN formSchemaUserNickname
                 ELSE IF f = "password" THEN formSchemaPassword
                 ELSE IF f = "newPassword" THEN formSchemaNewPassword
                 ELSE confirmPasswordChecks],
   refines |-> TRUE]

Forms == {"nickname", "password", "edit"}

SchemaOf(form) ==
  IF form = "nickname" THEN nicknameSchema
  ELSE IF form = "password" THEN passwordSchema
  ELSE formSchema

RefineOf(form, data) ==
  IF form = "password" THEN passwordSchemaRefine(data)
  ELSE IF form = "edit" THEN formSchemaRefine(data)
  ELSE NoRefine(data)

RefinePathOf(form) ==
  IF form = "password" THEN passwordSchemaRefinePath ELSE formSchemaRefinePath

FieldsOf(form) == {SchemaOf(form).keys[i] : i \in 1..Len(SchemaOf(form).keys)}

RECURSIVE TagIssues(_, _)
TagIssues(path, messages) ==
  IF messages = << >> THEN << >>
  ELSE << [path |-> path, message |-> Head(messages)] >> \o TagIssues(path, Tail(messages))

RECURSIVE FieldIssues(_, _, _)
FieldIssues(schema, keys, vals) ==
  IF keys = << >> THEN << >>
  ELSE TagIssues(Head(keys), ZodString(schema.checks[Head(keys)], vals[Head(keys)]).issues)
         \o FieldIssues(schema, Tail(keys), vals)

\* schema.safeParse(values): the parsed data and every issue, in order.
ZodParse(form, vals) ==
  LET schema == SchemaOf(form)
      data == [f \in FieldsOf(form) |-> ZodString(schema.checks[f], vals[f]).value]
      refineIssues ==
        IF schema.refines /\ ~RefineOf(form, data)
        THEN << [path |-> RefinePathOf(form), message |-> MsgMismatch] >>
        ELSE << >>
  IN  [data |-> data,
       issues |-> FieldIssues(schema, schema.keys, vals) \o refineIssues]

\* zodResolver: a field's error is the first issue whose path is the field.
FirstIssue(issues, f) ==
  LET at == {i \in 1..Len(issues) : issues[i].path = f}
  IN  IF at = {} THEN NoError
      ELSE issues[CHOOSE i \in at : \A j \in at : i <= j].message

zodResolver(form, vals) ==
  LET parsed == ZodParse(form, vals)
  IN  [values |-> parsed.data,
       errors |-> [f \in FieldsOf(form) |-> FirstIssue(parsed.issues, f)]]

NoErrors(errs) == \A f \in DOMAIN errs : errs[f] = NoError

\* ------------------------------------------------------------------------
\* State
\* ------------------------------------------------------------------------
VARIABLES
  arg,           \* input handed to the schemas (validation on its own)
  out,           \* the issues and errors the schemas report for arg
  view,          \* "cards" or "single": which EditProfile is mounted
  location,      \* current route
  values,        \* field name -> text in the input
  errors,        \* formState.errors: field name -> message or NoError
  isSubmitted,   \* formState.isSubmitted of each form
  attempts,      \* button -> number of clicks on its submit/update button
  calls,         \* handler -> number of invocations
  toasts,        \* number of toast notifications shown
  profileImage,  \* useState('') : the image draft
  fileInput,     \* value of the file input (imageFileRef.current.value)
  selected,      \* files handed to a FileReader, in selection order
  pending,       \* indices of selected whose read is in flight
  lastFile,      \* history: file of the latest selection since mount/cancel
  lastResult,    \* history: reader.result delivered by the latest onloadend
  allLoaded,     \* history: no read has ended in an error
  categories,    \* useState([]) : selected labels, in insertion order
  lastToggle,    \* history: label of the latest toggleCategory call
  beforeToggle,  \* history: categories before the latest toggleCategory call
  beforeTwo,     \* history: categories before the latest two calls, when
                 \* both had the same label; NotTwice otherwise
  cancelled      \* history: handleCancel has run

vars ==
  << arg, out, view, location, values, errors, isSubmitted, attempts, calls,
     toasts, profileImage, fileInput, selected, pending, lastFile, lastResult,
     allLoaded, categories, lastToggle, beforeToggle, beforeTwo, cancelled >>

validateVars == << arg, out >>
formVars == << values, errors, isSubmitted >>
countVars == << attempts, calls, toasts >>
imageVars == << profileImage, fileInput, selected, pending, lastFile, lastResult, allLoaded >>
categoryVars == << categories, lastToggle, beforeToggle, beforeTwo >>
routeVars == << location, cancelled >>

Views == {"cards", "single"}
AllFields ==
  {"nickname", "currentPassword", "newPassword", "confirmPassword", "userNickname", "password"}
Buttons == {"nickname", "password", "edit", "image", "category"}
Handlers ==
  {"onSubmitNickname", "onSubmitPassword", "onSubmit", "handleImageSubmit",
   "handleCategorySubmit"}

FormsOfView(v) == IF v = "cards" THEN {"nickname", "password"} ELSE {"edit"}
FieldsOfView(v) == UNION {FieldsOf(form) : form \in FormsOfView(v)}
FormOfField(v, f) == CHOOSE form \in FormsOfView(v) : f \in FieldsOf(form)

EditRoute == "/edit-profile"
ProfileRoute == "/my-profile"

\* const defaultImage = 'https://example.com/my-default-image.png'
defaultImage == "my-default-image.png"
EmptyImage == << >>
Null == << "null" >>
NoFile == 0
Files == 1..NumFiles

\* reader.result after readAsDataURL(file) succeeded
DataURL(file) == << "data", file >>

\* src={profileImage || defaultImage}
AvatarSrc == IF profileImage \in {EmptyImage, Null} THEN defaultImage ELSE profileImage

\* categoryOptions of each view; the fifth label is spelled with a space in
\* the cards view and without one in the single view.
categoryOptions(v) ==
  IF v = "cards"
  THEN << "soccer", "basketball", "baseball", "tennis", "scuba diving", "waterski", "running" >>
  ELSE << "soccer", "basketball", "baseball", "tennis", "scubadiving", "waterski", "running" >>

NotTwice == << "-" >>

Range(s) == {s[i] : i \in 1..Len(s)}

Total(f) ==
  f["nickname"] + f["password"] + f["edit"] + f["image"] + f["category"]

\* ------------------------------------------------------------------------
\* Inputs
\* ------------------------------------------------------------------------
Cycle(base, n) == [i \in 1..n |-> base[((i - 1) % Len(base)) + 1]]

\* "abcabcab...", "aaabbbb1..." and a text with a line separator in it
PwBases ==
  { << "a", "b", "c" >>,
    << "a", "a", "a", "b", "b", "b", "b", "1" >>,
    << "p", "q", "r", "s", "t", "u", "v", "LS", "w" >> }

PwInputs == {Cycle(base, n) : base \in PwBases, n \in 0..MaxPwLen}

GoodNickname == << "a", "b" >>
GoodPassword == << "a", "b", "c", "a", "b", "c", "a", "b" >>

MakeArg(nick, cur, new, conf) ==
  [nickname |-> nick, currentPassword |-> cur, newPassword |-> new, confirmPassword |-> conf]

IdleArg == MakeArg(<< >>, << >>, << >>, << >>)
NotValidated == [done |-> FALSE, forms |-> << >>]

ValidateArgs ==
  {MakeArg(s, GoodPassword, GoodPassword, GoodPassword) : s \in Strings(NickChars, MaxNickLen)}
    \cup {MakeArg(GoodNickname, GoodPassword, s, s) : s \in Strings(RepeatChars, MaxRepeatLen)}
    \cup {MakeArg(n, c, s, k) : n \in {GoodNickname, << "a" >>},
                                c \in PwInputs, s \in PwInputs, k \in PwInputs}

\* What each form hands to its resolver when its fields hold arg.
ArgValues(form) ==
  IF form = "nickname" THEN [f \in FieldsOf(form) |-> arg.nickname]
  ELSE [f \in FieldsOf(form) |->
          IF f = "userNickname" THEN arg.nickname
          ELSE IF f \in {"currentPassword", "password"} THEN arg.currentPassword
          ELSE arg[f]]

\* ------------------------------------------------------------------------
\* Initial states
\* ------------------------------------------------------------------------
InitMounted ==
  /\ location = EditRoute
  /\ values = [f \in AllFields |-> << >>]
  /\ errors = [f \in AllFields |-> NoError]
  /\ isSubmitted = [form \in Forms |-> FALSE]
  /\ attempts = [b \in Buttons |-> 0]
  /\ calls = [h \in Handlers |-> 0]
  /\ toasts = 0
  /\ profileImage = EmptyImage
  /\ fileInput = NoFile
  /\ selected = << >>
  /\ pending = {}
  /\ lastFile = NoFile
  /\ lastResult = EmptyImage
  /\ allLoaded = TRUE
  /\ categories = << >>
  /\ lastToggle = ""
  /\ beforeToggle = << >>
  /\ beforeTwo = NotTwice
  /\ cancelled = FALSE

Init ==
  /\ arg = IdleArg
  /\ out = NotValidated
  /\ view \in Views
  /\ InitMounted

InitValidate ==
  /\ arg \in ValidateArgs
  /\ out = NotValidated
  /\ view = "cards"
  /\ InitMounted

\* ------------------------------------------------------------------------
\* react-hook-form: useForm({ resolver: zodResolver(schema) }) with the
\* default modes (mode 'onSubmit', reValidateMode 'onChange')
\* ------------------------------------------------------------------------
FormValues(form, vals) == [f \in FieldsOf(form) |-> vals[f]]

\* Mutant: an input that never re-validates on change
EditWithoutRevalidate(f, s) ==
  /\ location = EditRoute
  /\ f \in FieldsOfView(view)
  /\ s # values[f]
  /\ values' = [values EXCEPT ![f] = s]
  /\ UNCHANGED << validateVars, view, errors, isSubmitted, countVars, imageVars,
                  categoryVars, routeVars >>

\* The registered input's onChange.  Before the first submit nothing is
\* validated; after it the resolver runs on every change and the error of
\* the changed field alone is replaced.
Edit(f, s) ==
  /\ location = EditRoute
  /\ f \in FieldsOfView(view)
  /\ s # values[f]
  /\ values' = [values EXCEPT ![f] = s]
  /\ LET form == FormOfField(view, f)
     IN  errors' =
           IF isSubmitted[form]
           THEN [errors EXCEPT ![f] = zodResolver(form, FormValues(form, values')).errors[f]]
           ELSE errors
  /\ UNCHANGED << validateVars, view, isSubmitted, countVars, imageVars, categoryVars,
                  routeVars >>

\* toast({...}) inside a handler
Toast == toasts' = toasts + 1

\* const onSubmitNickname = async (data) => { console.log; toast }
onSubmitNickname(data) ==
  /\ calls' = [calls EXCEPT !["onSubmitNickname"] = @ + 1]
  /\ Toast

\* const onSubmitPassword = async (data) => { console.log; toast }
onSubmitPassword(data) ==
  /\ calls' = [calls EXCEPT !["onSubmitPassword"] = @ + 1]
  /\ Toast

\* const onSubmit = (data) => { console.log; console.log }   (single view)
onSubmit(data) ==
  /\ calls' = [calls EXCEPT !["onSubmit"] = @ + 1]
  /\ UNCHANGED toasts

HandlerOf(form) ==
  IF form = "nickname" THEN "onSubmitNickname"
  ELSE IF form = "password" THEN "onSubmitPassword"
  ELSE "onSubmit"

OnValid(form, data) ==
  IF form = "nickname" THEN onSubmitNickname(data)
  ELSE IF form = "password" THEN onSubmitPassword(data)
  ELSE onSubmit(data)

\* Mutant: a submit that calls the handler whatever the resolver reports
handleSubmitUnchecked(form) ==
  /\ location = EditRoute
  /\ form \in FormsOfView(view)
  /\ Total(attempts) < MaxSubmits
  /\ attempts' = [attempts EXCEPT ![form] = @ + 1]
  /\ isSubmitted' = [isSubmitted EXCEPT ![form] = TRUE]
  /\ LET r == zodResolver(form, FormValues(form, values))
     IN  /\ errors' = [f \in AllFields |->
                         IF f \in FieldsOf(form) THEN r.errors[f] ELSE errors[f]]
         /\ OnValid(form, r.values)
  /\ UNCHANGED << validateVars, view, values, imageVars, categoryVars, routeVars >>

\* handleSubmit(onValid): run the resolver on the form's values, store its
\* errors, and call onValid with the parsed data only when there are none.
handleSubmit(form) ==
  /\ location = EditRoute
  /\ form \in FormsOfView(view)
  /\ Total(attempts) < MaxSubmits
  /\ attempts' = [attempts EXCEPT ![form] = @ + 1]
  /\ isSubmitted' = [isSubmitted EXCEPT ![form] = TRUE]
  /\ LET r == zodResolver(form, FormValues(form, values))
     IN  /\ errors' = [f \in AllFields |->
                         IF f \in FieldsOf(form) THEN r.errors[f] ELSE errors[f]]
         /\ IF NoErrors(r.errors)
            THEN OnValid(form, r.values)
            ELSE UNCHANGED << calls, toasts >>
  /\ UNCHANGED << validateVars, view, values, imageVars, categoryVars, routeVars >>

\* <form onSubmit={handleSubmitNickname(onSubmitNickname)}>
SubmitNickname == handleSubmit("nickname")

\* <form onSubmit={handleSubmitPassword(onSubmitPassword)}>
SubmitPassword == handleSubmit("password")

\* <form onSubmit={handleSubmit(onSubmit)}>   (single view)
SubmitEdit == handleSubmit("edit")

\* const handleImageSubmit = async () => { toast }   (cards view)
handleImageSubmit ==
  /\ location = EditRoute
  /\ view = "cards"
  /\ Total(attempts) < MaxSubmits
  /\ attempts' = [attempts EXCEPT !["image"] = @ + 1]
  /\ calls' = [calls EXCEPT !["handleImageSubmit"] = @ + 1]
  /\ Toast
  /\ UNCHANGED << validateVars, view, formVars, imageVars, categoryVars, routeVars >>

\* Mutant: a category update that returns early on an empty selection
handleCategorySubmitNonEmpty ==
  /\ location = EditRoute
  /\ view = "cards"
  /\ Total(attempts) < MaxSubmits
  /\ attempts' = [attempts EXCEPT !["category"] = @ + 1]
  /\ IF categories # << >>
     THEN /\ calls' = [calls EXCEPT !["handleCategorySubmit"] = @ + 1]
          /\ Toast
     ELSE UNCHANGED << calls, toasts >>
  /\ UNCHANGED << validateVars, view, formVars, imageVars, categoryVars, routeVars >>

\* const handleCategorySubmit = async () => { console.log; toast }   (cards view)
handleCategorySubmit ==
  /\ location = EditRoute
  /\ view = "cards"
  /\ Total(attempts) < MaxSubmits
  /\ attempts' = [attempts EXCEPT !["category"] = @ + 1]
  /\ calls' = [calls EXCEPT !["handleCategorySubmit"] = @ + 1]
  /\ Toast
  /\ UNCHANGED << validateVars, view, formVars, imageVars, categoryVars, routeVars >>

\* ------------------------------------------------------------------------
\* Profile image draft
\* ------------------------------------------------------------------------
\* The change event of the file input.  With a file, a new FileReader
\* starts reading it; without one (the picker emptied the input) nothing
\* is done.  limit caps the number of reads started.
handleImageChange(file, limit) ==
  /\ location = EditRoute
  /\ file # fileInput
  /\ fileInput' = file
  /\ IF file # NoFile
     THEN /\ Len(selected) < limit
          /\ selected' = Append(selected, file)
          /\ pending' = pending \cup {Len(selected) + 1}
          /\ lastFile' = file
     ELSE UNCHANGED << selected, pending, lastFile >>
  /\ UNCHANGED << validateVars, view, formVars, countVars, profileImage, lastResult,
                  allLoaded, categoryVars, routeVars >>

\* Mutant: a callback that keeps the first image it was given
onloadendKeepFirst(result) ==
  profileImage' = IF profileImage = EmptyImage THEN result ELSE profileImage

\* reader.onloadend = () => { setProfileImage(reader.result as string) }
onloadend(result) == profileImage' = result

\* The read of selected[i] ends: with the data URL of the file, or with a
\* null result when the read failed.  Reads end in any order.
ReadDone(i, ok) ==
  /\ i \in pending
  /\ pending' = pending \ {i}
  /\ LET result == IF ok THEN DataURL(selected[i]) ELSE Null
     IN  /\ onloadend(result)
         /\ lastResult' = result
  /\ allLoaded' = (allLoaded /\ ok)
  /\ UNCHANGED << validateVars, view, formVars, countVars, fileInput, selected, lastFile,
                  categoryVars, routeVars >>

\* ------------------------------------------------------------------------
\* Category selection
\* ------------------------------------------------------------------------
\* Mutant: an updater that appends without looking
ToggleAlwaysAppend(prevCategories, category) == Append(prevCategories, category)

\* prevCategories.includes(category)
\*   ? prevCategories.filter(c => c !== category) : [...prevCategories, category]
ToggleUpdater(prevCategories, category) ==
  IF category \in Range(prevCategories)
  THEN SelectSeq(prevCategories, LAMBDA c : c # category)
  ELSE Append(prevCategories, category)

toggleCategory(category) ==
  /\ location = EditRoute
  /\ category \in Range(categoryOptions(view))
  /\ categories' = ToggleUpdater(categories, category)
  /\ lastToggle' = category
  /\ beforeToggle' = categories
  /\ beforeTwo' = IF lastToggle = category THEN beforeToggle ELSE NotTwice
  /\ UNCHANGED << validateVars, view, formVars, countVars, imageVars, routeVars >>

\* ------------------------------------------------------------------------
\* Cancel (single view)
\* ------------------------------------------------------------------------
\* reset() of react-hook-form with no arguments
reset ==
  /\ values' = [f \in AllFields |-> << >>]
  /\ errors' = [f \in AllFields |-> NoError]
  /\ isSubmitted' = [form \in Forms |-> FALSE]

\* navigate('/my-profile')
navigate(to) == location' = to

\* setProfileImage(''); reset(); navigate('/my-profile');
\* if (imageFileRef.current) imageFileRef.current.value = ''
handleCancel ==
  /\ location = EditRoute
  /\ view = "single"
  /\ profileImage' = EmptyImage
  /\ reset
  /\ navigate(ProfileRoute)
  /\ fileInput' = NoFile
  /\ cancelled' = TRUE
  /\ lastFile' = NoFile
  /\ lastResult' = EmptyImage
  /\ UNCHANGED << validateVars, view, countVars, selected, pending, allLoaded,
                  categoryVars >>

\* ------------------------------------------------------------------------
\* Validation on its own: the three schemas applied to arg
\* ------------------------------------------------------------------------
Validate ==
  /\ ~out.done
  /\ out' = [done |-> TRUE,
             forms |-> [form \in Forms |->
                          [issues |-> ZodParse(form, ArgValues(form)).issues,
                           errors |-> zodResolver(form, ArgValues(form)).errors]]]
  /\ UNCHANGED << arg, view, formVars, countVars, imageVars, categoryVars, routeVars >>

NextValidate == Validate

SpecValidate == InitValidate /\ [][NextValidate]_vars

\* An issue with this message was raised on this path.
Raised(form, path, msg) ==
  \E i \in 1..Len(out.forms[form].issues) :
    out.forms[form].issues[i] = [path |-> path, message |-> msg]

Accepted(form, path) ==
  \A i \in 1..Len(out.forms[form].issues) : out.forms[form].issues[i].path # path

\* Some character occurs three or more times in a row.
HasTriple(s) ==
  \E k \in 1..Len(s) : k + 2 <= Len(s) /\ s[k + 1] = s[k] /\ s[k + 2] = s[k]

\* C1: the nickname rule of either schema accepts s exactly when trim(s) is
\* non-empty, consists of letters, digits and complete Hangul syllables
\* only, and is at least 2 long; the two schemas agree on every s.
C1_NicknameRule ==
  out.done =>
    LET t == Trim(arg.nickname)
        ok == /\ t # << >>
              /\ \A i \in 1..Len(t) : t[i] \in NicknameClass
              /\ Len(t) >= 2
    IN  /\ Accepted("nickname", "nickname") <=> ok
        /\ Accepted("edit", "userNickname") <=> ok

C1_Witness ==
  /\ out.done
  /\ arg.nickname # Trim(arg.nickname)
  /\ Len(arg.nickname) = 3
  /\ Accepted("nickname", "nickname")
  /\ Accepted("edit", "userNickname")

\* C2: the repeat rule on newPassword passes exactly when no character
\* occurs 3 or more times in a row, line-break characters included.
C2_RepeatRule ==
  out.done =>
    /\ ~Raised("password", "newPassword", MsgRepeat) <=> ~HasTriple(arg.newPassword)
    /\ ~Raised("edit", "newPassword", MsgRepeat) <=> ~HasTriple(arg.newPassword)

\* C3: each of the two password fields gets the minimum-length error
\* exactly when its own length is below 8, whatever the other field holds.
C3_MinLength ==
  out.done =>
    /\ out.forms["password"].errors["currentPassword"] = MsgPwMin <=> Len(arg.currentPassword) < 8
    /\ out.forms["password"].errors["newPassword"] = MsgPwMin <=> Len(arg.newPassword) < 8
    /\ out.forms["edit"].errors["password"] = MsgPwMin <=> Len(arg.currentPassword) < 8
    /\ out.forms["edit"].errors["newPassword"] = MsgPwMin <=> Len(arg.newPassword) < 8

C3_Witness ==
  /\ out.done
  /\ Len(arg.currentPassword) = 7
  /\ Len(arg.newPassword) = 8
  /\ HasTriple(arg.newPassword)
  /\ out.forms["password"].errors["currentPassword"] = MsgPwMin
  /\ out.forms["password"].errors["newPassword"] = MsgRepeat
  /\ out.forms["edit"].errors["password"] = MsgPwMin

\* C4: the confirmation check passes exactly when newPassword equals
\* confirmPassword; its error is attached to confirmPassword and to no
\* other field, so a newPassword that passes its own checks shows no error.
C4_Confirmation ==
  out.done =>
    \A form \in {"password", "edit"} :
      /\ Raised(form, "confirmPassword", MsgMismatch)
           <=> arg.newPassword # arg.confirmPassword
      /\ out.forms[form].errors["confirmPassword"] = MsgMismatch
           <=> arg.newPassword # arg.confirmPassword
      /\ \A f \in FieldsOf(form) \ {"confirmPassword"} :
           /\ ~Raised(form, f, MsgMismatch)
           /\ out.forms[form].errors[f] # MsgMismatch
      /\ ZodString(SchemaOf(form).checks["newPassword"], arg.newPassword).issues = << >>
           => out.forms[form].errors["newPassword"] = NoError

C4_Witness ==
  /\ out.done
  /\ Len(arg.newPassword) = 9
  /\ Len(arg.confirmPassword) = 9
  /\ arg.newPassword # arg.confirmPassword
  /\ out.forms["password"].errors["newPassword"] = NoError
  /\ out.forms["password"].errors["confirmPassword"] = MsgMismatch
  /\ out.forms["edit"].errors["newPassword"] = NoError
  /\ out.forms["edit"].errors["confirmPassword"] = MsgMismatch

\* ------------------------------------------------------------------------
\* The forms on their own: typing and submitting
\* ------------------------------------------------------------------------
FormNickInputs == { << >>, << "a", " " >>, << "a", "b" >>, << "GA", "HIH", "!" >> }
FormPwInputs == { << >>, Cycle(<< "a", "b", "c" >>, 8), Cycle(<< "a", "b", "c" >>, 7),
                  << "a", "a", "a", "b", "b", "b", "b", "1" >> }

InputsFor(f, nicks, pws) ==
  IF f \in {"nickname", "userNickname"} THEN nicks ELSE pws

Type(nicks, pws) ==
  \E f \in AllFields : \E s \in InputsFor(f, nicks, pws) : Edit(f, s)

TypeForms == Type(FormNickInputs, FormPwInputs)

NextForms ==
  \/ TypeForms
  \/ SubmitNickname
  \/ SubmitPassword
  \/ SubmitEdit
  \/ handleImageSubmit
  \/ handleCategorySubmit

SpecForms == Init /\ [][NextForms]_vars

\* Every field of the form satisfies its rule: each passes the checks of
\* its schema and, where the form has one, the confirmation matches.
FieldRuleOk(form, f, vals) ==
  IF f = "confirmPassword"
  THEN vals["newPassword"] = vals["confirmPassword"]
  ELSE ZodString(SchemaOf(form).checks[f], vals[f]).issues = << >>

FormRuleOk(form, vals) == \A f \in FieldsOf(form) : FieldRuleOk(form, f, vals)

\* C5: a submit attempt invokes the form's handler exactly once when every
\* field satisfies its rule and not at all otherwise; a rejected attempt
\* shows field errors and leaves the user editing with the values as typed.
C5_SubmitGate ==
  [][\A form \in Forms :
       attempts'[form] = attempts[form] + 1 =>
         /\ values' = values
         /\ location' = EditRoute
         /\ \A h \in Handlers \ {HandlerOf(form)} : calls'[h] = calls[h]
         /\ IF FormRuleOk(form, values)
            THEN /\ calls'[HandlerOf(form)] = calls[HandlerOf(form)] + 1
                 /\ \A f \in FieldsOf(form) : errors'[f] = NoError
            ELSE /\ calls'[HandlerOf(form)] = calls[HandlerOf(form)]
                 /\ \E f \in FieldsOf(form) : errors'[f] # NoError
                 /\ \A f \in FieldsOf(form) :
                      errors'[f] # NoError <=> ~FieldRuleOk(form, f, values)]_vars

C5_Witness ==
  \E form \in Forms :
    /\ attempts[form] = 2
    /\ calls[HandlerOf(form)] = 1
    /\ \E f \in FieldsOf(form) : errors[f] # NoError

\* C6: every accepted submission shows a success notification, in both
\* views: each run of an external handler comes with one toast.
C6_Notified ==
  toasts = calls["onSubmitNickname"] + calls["onSubmitPassword"] + calls["onSubmit"]
             + calls["handleImageSubmit"] + calls["handleCategorySubmit"]

\* C9 as claimed: in every reachable state, a field without a displayed
\* error satisfies its rule.
C9_NoErrorMeansValid ==
  \A form \in FormsOfView(view) : \A f \in FieldsOf(form) :
    errors[f] = NoError => FieldRuleOk(form, f, values)

\* A step that refreshes the confirmPassword error of the form: a submit
\* attempt, or an edit of confirmPassword after the first submit.
RefreshesConfirm(form) ==
  \/ attempts'[form] # attempts[form]
  \/ /\ isSubmitted[form]
     /\ values'["confirmPassword"] # values["confirmPassword"]

\* C9 (amended): before a form's first submit no error is displayed at all;
\* once it has been submitted, a field other than confirmPassword shows no
\* error only while its value satisfies its rule, and confirmPassword shows
\* none only if it matched at the latest submit or edit of confirmPassword.
C9_AfterSubmit ==
  /\ [](\A form \in FormsOfView(view) : \A f \in FieldsOf(form) :
          IF isSubmitted[form]
          THEN (f # "confirmPassword" /\ errors[f] = NoError)
                 => FieldRuleOk(form, f, values)
          ELSE errors[f] = NoError)
  /\ [][\A form \in FormsOfView(view) \ {"nickname"} :
          (RefreshesConfirm(form) /\ errors'["confirmPassword"] = NoError)
            => FieldRuleOk(form, "confirmPassword", values')]_vars

C9_Witness ==
  \E form \in FormsOfView(view) \ {"nickname"} :
    /\ isSubmitted[form]
    /\ calls[HandlerOf(form)] = 0
    /\ values["newPassword"] # << >>
    /\ errors["newPassword"] = NoError
    /\ errors["confirmPassword"] = NoError
    /\ values["confirmPassword"] # values["newPassword"]

\* ------------------------------------------------------------------------
\* The image draft on its own
\* ------------------------------------------------------------------------
SelectImage == \E file \in Files \cup {NoFile} : handleImageChange(file, MaxSelections)

CompleteRead == \E i \in pending : \E ok \in BOOLEAN : ReadDone(i, ok)

NextImage ==
  \/ SelectImage
  \/ CompleteRead
  \/ handleCancel

SpecImage == Init /\ [][NextImage]_vars

\* C8 as claimed: once no read is in flight the draft holds the content of
\* the most recently selected file; an empty draft shows the placeholder.
C8_MostRecent ==
  /\ (pending = {} /\ lastFile # NoFile /\ allLoaded) => profileImage = DataURL(lastFile)
  /\ profileImage = EmptyImage => AvatarSrc = defaultImage

\* C8 (amended): the draft always holds what the read that ended last
\* delivered (the whole data URL of one selected file, or null when that
\* read failed) and is empty before any read ended and after cancel;
\* a selection event without a file leaves it as it is, and an empty
\* draft shows the placeholder.
C8_LastWriteWins ==
  /\ profileImage = lastResult
  /\ profileImage \in {EmptyImage, Null} \cup {DataURL(selected[i]) : i \in 1..Len(selected)}
  /\ profileImage = EmptyImage => AvatarSrc = defaultImage
  /\ profileImage \notin {EmptyImage, Null} => AvatarSrc = profileImage

C8_Witness ==
  /\ pending = {}
  /\ allLoaded
  /\ Len(selected) = 2
  /\ selected[1] # selected[2]
  /\ lastFile = selected[2]
  /\ profileImage = DataURL(selected[1])

\* ------------------------------------------------------------------------
\* The category selection on its own
\* ------------------------------------------------------------------------
Toggle(labels) == \E category \in labels : toggleCategory(category)

ToggleAny == Toggle(Range(categoryOptions(view)))

NextCategory == ToggleAny

SpecCategory == Init /\ [][NextCategory]_vars

\* C7: toggling the same label twice in a row gives back the set of
\* selected labels there was before the two calls.
C7_DoubleToggle ==
  beforeTwo # NotTwice => Range(categories) = Range(beforeTwo)

C7_Witness ==
  /\ beforeTwo # NotTwice
  /\ Len(categories) >= 2
  /\ lastToggle \in Range(categories)
  /\ categories # beforeTwo

\* ------------------------------------------------------------------------
\* Selecting categories and submitting the selection
\* ------------------------------------------------------------------------
\* The view with its text fields already filled in with valid texts, so
\* that the save button of the single view gets past the form's schema.
InitSelection ==
  /\ arg = IdleArg
  /\ out = NotValidated
  /\ view \in Views
  /\ location = EditRoute
  /\ values = [f \in AllFields |->
                 IF f \in {"nickname", "userNickname"} THEN GoodNickname ELSE GoodPassword]
  /\ errors = [f \in AllFields |-> NoError]
  /\ isSubmitted = [form \in Forms |-> FALSE]
  /\ attempts = [b \in Buttons |-> 0]
  /\ calls = [h \in Handlers |-> 0]
  /\ toasts = 0
  /\ profileImage = EmptyImage
  /\ fileInput = NoFile
  /\ selected = << >>
  /\ pending = {}
  /\ lastFile = NoFile
  /\ lastResult = EmptyImage
  /\ allLoaded = TRUE
  /\ categories = << >>
  /\ lastToggle = ""
  /\ beforeToggle = << >>
  /\ beforeTwo = NotTwice
  /\ cancelled = FALSE

\* The button that submits the selection: the category card's update
\* button in the cards view, the form's save button in the single view.
SelectionButton == IF view = "cards" THEN "category" ELSE "edit"
SelectionHandler == IF view = "cards" THEN "handleCategorySubmit" ELSE "onSubmit"

\* One submission per run, which ends it: submitting leaves the selection
\* as it is.
SubmitSelection ==
  /\ Total(attempts) = 0
  /\ \/ handleCategorySubmit
     \/ SubmitEdit

\* The selection is made first and then submitted.
ToggleBeforeSubmit ==
  /\ Total(attempts) = 0
  /\ ToggleAny

NextSelection ==
  \/ ToggleBeforeSubmit
  \/ SubmitSelection

SpecSelection == InitSelection /\ [][NextSelection]_vars

Distinct(s) == Cardinality(Range(s)) = Len(s)

\* The labels whose membership differs between two selections.
Flipped(before, after) ==
  (Range(before) \ Range(after)) \cup (Range(after) \ Range(before))

\* C11: the selection starts empty; every selected label is one of the 7
\* options of the view and appears once; every toggle of an option flips
\* that label alone whatever the size of the selection, so every subset of
\* the options is reachable; and every click on the button that submits
\* the selection runs its handler, whatever the selection holds.
C11_AnySubset ==
  /\ lastToggle = "" => categories = << >>
  /\ Len(categoryOptions(view)) = 7 /\ Distinct(categoryOptions(view))
  /\ Range(categories) \subseteq Range(categoryOptions(view))
  /\ Distinct(categories)
  /\ lastToggle # "" =>
       /\ lastToggle \in Range(categoryOptions(view))
       /\ Flipped(beforeToggle, categories) = {lastToggle}
  /\ calls[SelectionHandler] = attempts[SelectionButton]

C11_Witness ==
  /\ Len(categories) = 7
  /\ lastToggle # ""
  /\ attempts[SelectionButton] = 1
  /\ calls[SelectionHandler] = 1

\* ------------------------------------------------------------------------
\* The whole view
\* ------------------------------------------------------------------------
\* Here the inputs are narrowed: one text per field, the first file only
\* and a single read, and the first two labels.
TypeFew == Type({GoodNickname}, {GoodPassword})

FirstFile == CHOOSE f \in Files : \A g \in Files : f <= g

SelectOnce ==
  \E file \in {FirstFile, NoFile} :
    /\ file = NoFile \/ selected = << >>
    /\ handleImageChange(file, MaxSelections)

ToggleFew == Toggle({"soccer", "basketball"})

Next ==
  \/ TypeFew
  \/ SubmitNickname
  \/ SubmitPassword
  \/ SubmitEdit
  \/ handleImageSubmit
  \/ handleCategorySubmit
  \/ SelectOnce
  \/ CompleteRead
  \/ ToggleFew
  \/ handleCancel

Spec == Init /\ [][Next]_vars

\* C10: once handleCancel has run the user is on the profile view and the
\* edits are cleared and stay cleared: no image draft, the form reset, the
\* file input emptied and no category selected.
C10_CancelClears ==
  cancelled =>
    /\ location = ProfileRoute
    /\ profileImage = EmptyImage
    /\ \A f \in AllFields : values[f] = << >> /\ errors[f] = NoError
    /\ fileInput = NoFile
    /\ categories = << >>

====
